---- MODULE Spec2Model ----
(***************************************************************************)
(* Model of package filerotate (filerotate.go): a Writer that appends to   *)
(* a base file and rotates it into numbered generations <path>.1 ..        *)
(* <path>.R once the size threshold is reached, optionally deferring the   *)
(* rotation until a line separator is seen.                                *)
(*                                                                         *)
(* The file system is the directory of the base file: name 0 is the base   *)
(* path and name i >= 1 is <path>.i.  A file is an inode with an identity  *)
(* (id), a count of bytes that were in it before the writer was built      *)
(* (pre) and the bytes appended since (data).  A handle (w.f) refers to an *)
(* inode, not to a name.                                                   *)
(*                                                                         *)
(* Write, rotate and Close are translated statement by statement into      *)
(* steps over a record s that holds the writer, the directory and the      *)
(* locals of the call; a call is the run of its steps to the return.       *)
(***************************************************************************)
EXTENDS Integers, Sequences, FiniteSets, TLC

\* ---------------------------------------------------------------- bounds
MaxRotate == 2      \* largest Options.Rotate handed to NewWriter
MaxSize == 2        \* largest Options.Size handed to NewWriter
MaxLen == 2         \* longest slice handed to Write
MaxBytes == 3       \* bytes handed to Write in one run
MaxFaults == 1      \* I/O operations that fail in one run
NumThreads == 2     \* goroutines that call Write and Close on the one writer

\* ------------------------------------------------------ program constants
DefaultRotate == 5
DefaultSize == 10 * 1024 * 1024
LF == 10
CR == 13
LineSeparatorUnix == <<LF>>
LineSeparatorWindows == <<CR, LF>>
LineSeparatorNothing == <<>>

Byte == {LF, CR}
Separators == {LineSeparatorNothing, LineSeparatorUnix, LineSeparatorWindows}

RECURSIVE SeqsUpTo(_)
SeqsUpTo(n) ==
  IF n = 0 THEN {<<>>}
  ELSE LET shorter == SeqsUpTo(n - 1)
       IN shorter \cup {Append(q, b) : q \in {x \in shorter : Len(x) = n - 1}, b \in Byte}

\* the slices p a caller hands to Write
Inputs == SeqsUpTo(MaxLen)

Min(S) == CHOOSE x \in S : \A y \in S : x <= y
Max(S) == CHOOSE x \in S : \A y \in S : x >= y

\* ------------------------------------------------------------ file system
\* names of the directory: 0 is FilePath, i is fmt.Sprintf("%s.%d", FilePath, i)
MaxName == Max({DefaultRotate, MaxRotate}) + 1
Names == 0 .. MaxName

NoFile == [id |-> -1, pre |-> 0, data |-> <<>>]
NilFile == [ino |-> -1, st |-> "nil"]

Exists(dir, name) == dir[name] # NoFile
FileSize(file) == file.pre + Len(file.data)
Present(dir) == {name \in Names : Exists(dir, name)}

\* the inode a handle refers to, wherever it is named now (NoFile: unlinked)
Inode(dir, ino) ==
  IF \E name \in Names : dir[name].id = ino
  THEN dir[CHOOSE name \in Names : dir[name].id = ino]
  ELSE NoFile

\* bytes.Index: offset of the first occurrence of sep in b, -1 if there is none
Index(b, sep) ==
  LET hits == {i \in 0 .. (Len(b) - Len(sep)) : SubSeq(b, i + 1, i + Len(sep)) = sep}
  IN IF hits = {} THEN -1 ELSE Min(hits)

\* Go slice expressions b[:k] and b[k:]
SliceTo(b, k) == SubSeq(b, 1, k)
SliceFrom(b, k) == SubSeq(b, k + 1, Len(b))

\* NewWriter: zero-valued Rotate and Size take the defaults
NewWriterOptions(o) ==
  [Rotate |-> IF o.Rotate = 0 THEN DefaultRotate ELSE o.Rotate,
   Size |-> IF o.Size = 0 THEN DefaultSize ELSE o.Size,
   LineSeparator |-> o.LineSeparator]

VARIABLES
  arg,            \* the Options handed to NewWriter
  options,        \* w.options
  f,              \* w.f
  buf,            \* w.buf
  dir,            \* the directory of FilePath
  nextId,         \* identity of the next inode O_CREATE makes
  rotations,      \* history: calls of rotate that returned nil
  rotateErr,      \* history: the error of the call of rotate that failed, or "nil"
  closedFile,     \* history: the file rotate closed last, as it was then
  fds,            \* the inodes the process holds an open descriptor on
  overwrote,      \* history: an os.Rename of rotate replaced an existing file
  closes,         \* history: calls of Close that have returned, counted up to two
  faults,         \* history: I/O operations that failed
  written,        \* history: bytes handed to Write
  last,           \* history: the last call, its caller, argument length and results
  mu,             \* w.mu: the goroutine that holds it, 0 when it is unlocked
  th              \* the goroutines: the call each is in, and its locals

vars == <<arg, options, f, buf, dir, nextId, rotations, rotateErr,
          closedFile, fds, overwrote, closes, faults, written, last, mu, th>>

\* ------------------------------------------------ a call's state and its I/O
\* s holds the writer (f, buf), the directory, the history and the locals of
\* the call in progress: pc (the statement to run next), p (the argument of
\* Write), size (stat.Size()), loc, n0, n and err (the results of the last
\* operation), i (the loop variable of rotate), rpc (where rotate returns to).
\* fk > 0: the fk-th I/O operation from here on fails; short: a failing write
\* is a short write that lands all but the last byte; ops counts the
\* operations done, wops those of them that wrote two bytes or more.

Fails(s) == s.fk = 1
Tick(s) == [s EXCEPT !.ops = @ + 1, !.fk = IF @ > 0 THEN @ - 1 ELSE 0]

AppendTo(d, ino, b) ==
  [name \in Names |-> IF d[name] # NoFile /\ d[name].id = ino
                      THEN [d[name] EXCEPT !.data = @ \o b]
                      ELSE d[name]]

\* (*os.File).Write(b) on w.f: n and err are its results
FileWrite(s, b) ==
  IF s.f.st # "open" THEN [s EXCEPT !.n = 0, !.err = "write: file already closed"]
  ELSE IF Fails(s)
  THEN LET landed == IF s.short /\ Len(b) > 0 THEN Len(b) - 1 ELSE 0
       IN [Tick(s) EXCEPT !.dir = AppendTo(s.dir, s.f.ino, SliceTo(b, landed)),
                          !.n = landed, !.err = "write: input/output error"]
  ELSE [Tick(s) EXCEPT !.dir = AppendTo(s.dir, s.f.ino, b),
                       !.n = Len(b), !.err = "nil",
                       !.wops = IF Len(b) > 1 THEN @ \cup {s.ops + 1} ELSE @]

\* (*os.File).Close() on w.f: the descriptor is released even when it reports
\* an error; closing a closed file is an error
FileClose(s) ==
  IF s.f.st # "open" THEN [s EXCEPT !.err = "close: file already closed"]
  ELSE IF Fails(s)
  THEN [Tick(s) EXCEPT !.f.st = "closed", !.fds = @ \ {s.f.ino},
                       !.err = "close: input/output error"]
  ELSE [Tick(s) EXCEPT !.f.st = "closed", !.fds = @ \ {s.f.ino}, !.err = "nil"]

\* os.Rename(old, new): replaces new if it exists
Rename(d, old, new) == [d EXCEPT ![new] = d[old], ![old] = NoFile]

\* os.Remove(name)
Remove(d, name) == [d EXCEPT ![name] = NoFile]

\* os.OpenFile(FilePath, O_APPEND|O_CREATE|O_WRONLY, Mode): the directory after
\* it, and the inode opened
OpenDir(d, id) ==
  IF Exists(d, 0) THEN d ELSE [d EXCEPT ![0] = [id |-> id, pre |-> 0, data |-> <<>>]]
OpenIno(d, id) == IF Exists(d, 0) THEN d[0].id ELSE id

Return(s, n, err) == [s EXCEPT !.pc = "ret", !.n = n, !.err = err]
Goto(s, pc) == [s EXCEPT !.pc = pc]

\* ------------------------------------------------------------------ rotate
rotateReturn(s, err) ==
  [s EXCEPT !.pc = s.rpc, !.err = err,
            !.rotations = IF err = "nil" THEN @ + 1 ELSE @,
            !.rotateErr = IF @ = "nil" THEN err ELSE @]

\* mutant: rotate sets w.f to nil once it has closed it
rotateCloseReleases(s) ==
  IF s.f.st = "nil" THEN Goto(s, "R_remove")
  ELSE LET c == [FileClose(s) EXCEPT !.closedFile = Inode(s.dir, s.f.ino), !.f = NilFile]
       IN IF c.err # "nil" THEN rotateReturn(c, "failed to close the file")
          ELSE Goto(c, "R_remove")

\* mutant: rotate does not close the file it renames
rotateCloseSkips(s) == Goto(s, "R_remove")

\* if w.f != nil { err := w.f.Close(); if err != nil { return ... } }
rotateClose(s) ==
  IF s.f.st = "nil" THEN Goto(s, "R_remove")
  ELSE LET c == [FileClose(s) EXCEPT !.closedFile = Inode(s.dir, s.f.ino)]
       IN IF c.err # "nil" THEN rotateReturn(c, "failed to close the file") ELSE Goto(c, "R_remove")

\* removePath := fmt.Sprintf("%s.%d", FilePath, Rotate), as a name of the directory
RemovePath == options.Rotate

\* the first i of: for i := Rotate - 1; i > 0; i--
ShiftStart == options.Rotate - 1

\* mutant: nothing is evicted, and the loop shifts every generation
rotateRemoveKeeps(s) == [s EXCEPT !.i = options.Rotate, !.pc = "R_shift"]

\* mutant: <path>.Rotate is left where it is, and the loop starts as it does
rotateRemoveSkips(s) == [s EXCEPT !.i = ShiftStart, !.pc = "R_shift"]

\* if _, err := os.Stat(removePath); err == nil { err = os.Remove(removePath) ... }
\* (os.Stat on a path is taken to tell exactly whether the file is there)
rotateRemove(s) ==
  IF Exists(s.dir, RemovePath)
  THEN IF Fails(s) THEN rotateReturn(Tick(s), "failed to remove")
       ELSE [Tick(s) EXCEPT !.dir = Remove(s.dir, RemovePath),
                            !.i = ShiftStart, !.pc = "R_shift"]
  ELSE [s EXCEPT !.i = ShiftStart, !.pc = "R_shift"]

\* mutant: the loop never renames
rotateShiftSkips(s) ==
  IF s.i > 0 THEN [s EXCEPT !.i = @ - 1] ELSE Goto(s, "R_base")

\* mutant: a generation that is not there is an error
rotateShiftNeedsFile(s) ==
  IF s.i > 0
  THEN IF ~Exists(s.dir, s.i) \/ Fails(s) THEN rotateReturn(Tick(s), "failed to rename")
       ELSE [Tick(s) EXCEPT !.dir = Rename(s.dir, s.i, s.i + 1), !.i = @ - 1]
  ELSE Goto(s, "R_base")

\* one iteration of: for i := Rotate - 1; i > 0; i-- { ... }
rotateShift(s) ==
  IF s.i > 0
  THEN IF ~Exists(s.dir, s.i) THEN [s EXCEPT !.i = @ - 1]
       ELSE IF Fails(s) THEN rotateReturn(Tick(s), "failed to rename")
       ELSE [Tick(s) EXCEPT !.dir = Rename(s.dir, s.i, s.i + 1),
                            !.overwrote = @ \/ Exists(s.dir, s.i + 1),
                            !.i = @ - 1]
  ELSE Goto(s, "R_base")

\* err := os.Rename(FilePath, FilePath + ".1")
rotateBase(s) ==
  IF ~Exists(s.dir, 0) THEN rotateReturn(s, "failed to rename")
  ELSE IF Fails(s) THEN rotateReturn(Tick(s), "failed to rename")
  ELSE [Tick(s) EXCEPT !.dir = Rename(s.dir, 0, 1),
                       !.overwrote = @ \/ Exists(s.dir, 1), !.pc = "R_open"]

\* f, err := os.OpenFile(FilePath, ...); w.f = f; return nil
rotateOpen(s) ==
  IF Fails(s) THEN rotateReturn(Tick(s), "failed to create a new file")
  ELSE rotateReturn(
         [Tick(s) EXCEPT !.dir = OpenDir(s.dir, s.nextId),
                         !.f = [ino |-> OpenIno(s.dir, s.nextId), st |-> "open"],
                         !.fds = @ \cup {OpenIno(s.dir, s.nextId)},
                         !.nextId = IF Exists(s.dir, 0) THEN @ ELSE @ + 1],
         "nil")

rotate(s, rpc) == [s EXCEPT !.pc = "R_close", !.rpc = rpc]

\* ------------------------------------------------------------------- Write
\* return w.f.Write(p)
WriteThrough(s) ==
  LET w == FileWrite(s, s.p) IN Return(w, w.n, w.err)

\* if w.f == nil { return 0, fmt.Errorf("file is closed") }
WriteNil(s) ==
  IF s.f.st = "nil" THEN Return(s, 0, "file is closed") ELSE Goto(s, "W_size0")

\* if w.options.Size == 0 { return w.f.Write(p) }
WriteSizeZero(s) ==
  IF options.Size = 0 THEN WriteThrough(s) ELSE Goto(s, "W_stat")

\* stat, err := w.f.Stat(); if err != nil { return 0, err }
WriteStat(s) ==
  IF s.f.st # "open" THEN Return(s, 0, "stat: file already closed")
  ELSE IF Fails(s) THEN Return(Tick(s), 0, "stat: input/output error")
  ELSE [Tick(s) EXCEPT !.size = FileSize(Inode(s.dir, s.f.ino)), !.pc = "W_below"]

\* mutant: the size of the file is not compared with the threshold
WriteBelowAlwaysRotates(s) == Goto(s, "W_nosep")

\* if stat.Size() < w.options.Size { return w.f.Write(p) }
WriteBelow(s) ==
  IF s.size < options.Size THEN WriteThrough(s) ELSE Goto(s, "W_nosep")

\* if len(w.options.LineSeparator) == 0 { if err := w.rotate() ...
WriteNoSeparator(s) ==
  IF Len(options.LineSeparator) = 0 THEN rotate(s, "W_nosep_rotated")
  ELSE Goto(s, "W_append")

\* ... ; err != nil { return 0, err }; return w.f.Write(p) }
WriteNoSeparatorRotated(s) ==
  IF s.err # "nil" THEN Return(s, 0, s.err) ELSE WriteThrough(s)

\* mutant: the argument replaces the buffer
WriteAppendReplaces(s) == [s EXCEPT !.buf = s.p, !.pc = "W_index"]

\* w.buf = append(w.buf, p...)
WriteAppend(s) == [s EXCEPT !.buf = @ \o s.p, !.pc = "W_index"]

\* mutant: without a separator in the buffer the count is the buffer's length
WriteIndexCountsBuffer(s) ==
  LET loc == Index(s.buf, options.LineSeparator)
  IN IF loc = -1 THEN Return(s, Len(s.buf), "nil") ELSE [s EXCEPT !.loc = loc, !.pc = "W_old"]

\* loc := bytes.Index(w.buf, sep); if loc == -1 { return len(p), nil }
WriteIndex(s) ==
  LET loc == Index(s.buf, options.LineSeparator)
  IN IF loc = -1 THEN Return(s, Len(s.p), "nil")
     ELSE [s EXCEPT !.loc = loc, !.pc = "W_old"]

\* mutant: the split forgets the length of the separator
OldPartNoSeparator(b, loc, sep) == SliceTo(b, loc)

\* mutant: the rest starts at the separator
NewPartKeepsSeparator(b, loc, sep) == SliceFrom(b, loc)

\* the part of the buffer that completes the current file, and the rest
OldPart(b, loc, sep) == SliceTo(b, loc + Len(sep))
NewPart(b, loc, sep) == SliceFrom(b, loc + Len(sep))

\* n0, err := w.f.Write(w.buf[:loc+len(sep)]); if err != nil { return 0, err }
\* if err := w.rotate() ...
WriteOld(s) ==
  LET w == FileWrite(s, OldPart(s.buf, s.loc, options.LineSeparator))
  IN IF w.err # "nil" THEN Return(w, 0, w.err)
     ELSE rotate([w EXCEPT !.n0 = w.n], "W_rotated")

\* ... ; err != nil { return 0, err }
WriteRotated(s) ==
  IF s.err # "nil" THEN Return(s, 0, s.err) ELSE Goto(s, "W_new")

\* n1, err := w.f.Write(w.buf[loc+len(sep):]); if err != nil { return 0, err }
WriteNew(s) ==
  LET w == FileWrite(s, NewPart(s.buf, s.loc, options.LineSeparator))
  IN IF w.err # "nil" THEN Return(w, 0, w.err) ELSE Goto(w, "W_reset")

\* w.buf = w.buf[:0]; return n0 + n1, nil
WriteReset(s) == Return([s EXCEPT !.buf = <<>>], s.n0 + s.n, "nil")

\* ------------------------------------------------------------------- Close
\* mutant: Close leaves w.f set
CloseFileKeepsHandle(s) ==
  IF s.f.st = "nil" THEN Return(s, 0, "nil")
  ELSE LET c == FileClose(s) IN Return(c, 0, c.err)

\* mutant: Close does not test w.f
CloseFileUnchecked(s) ==
  LET c == FileClose(s) IN Return([c EXCEPT !.f = NilFile], 0, c.err)

\* if w.f != nil { err := w.f.Close(); w.f = nil; return err }; return nil
CloseFile(s) ==
  IF s.f.st = "nil" THEN Return(s, 0, "nil")
  ELSE LET c == FileClose(s) IN Return([c EXCEPT !.f = NilFile], 0, c.err)

\* ------------------------------------------------------- running the steps
Step(s) ==
  CASE s.pc = "W_nil" -> WriteNil(s)
    [] s.pc = "W_size0" -> WriteSizeZero(s)
    [] s.pc = "W_stat" -> WriteStat(s)
    [] s.pc = "W_below" -> WriteBelow(s)
    [] s.pc = "W_nosep" -> WriteNoSeparator(s)
    [] s.pc = "W_nosep_rotated" -> WriteNoSeparatorRotated(s)
    [] s.pc = "W_append" -> WriteAppend(s)
    [] s.pc = "W_index" -> WriteIndex(s)
    [] s.pc = "W_old" -> WriteOld(s)
    [] s.pc = "W_rotated" -> WriteRotated(s)
    [] s.pc = "W_new" -> WriteNew(s)
    [] s.pc = "W_reset" -> WriteReset(s)
    [] s.pc = "R_close" -> rotateClose(s)
    [] s.pc = "R_remove" -> rotateRemove(s)
    [] s.pc = "R_shift" -> rotateShift(s)
    [] s.pc = "R_base" -> rotateBase(s)
    [] s.pc = "R_open" -> rotateOpen(s)
    [] s.pc = "C_close" -> CloseFile(s)

RECURSIVE Run(_)
Run(s) == IF s.pc = "ret" THEN s ELSE Run(Step(s))

Entry(op) == IF op = "Write" THEN "W_nil" ELSE "C_close"

\* the state a call starts in: the writer and directory as they are, the
\* locals cleared
Begin(op, p, k, short) ==
  [dir |-> dir, f |-> f, buf |-> buf, nextId |-> nextId,
   rotations |-> rotations, rotateErr |-> rotateErr, closedFile |-> closedFile,
   fds |-> fds, overwrote |-> overwrote,
   pc |-> Entry(op), p |-> p, size |-> 0, loc |-> 0, n0 |-> 0, n |-> 0,
   err |-> "nil", i |-> 0, rpc |-> "ret", fk |-> k, short |-> short, ops |-> 0,
   wops |-> {}]

\* a goroutine's record: s is the state of its call without the writer and the
\* directory, which are shared; start is the state the call began in
Threads == 1 .. NumThreads
NoDir == [name \in Names |-> NoFile]
Unload(s) ==
  [s EXCEPT !.dir = NoDir, !.f = NilFile, !.buf = <<>>, !.nextId = 0,
            !.rotations = 0, !.rotateErr = "nil", !.closedFile = NoFile,
            !.fds = {}, !.overwrote = FALSE]
IdleCall ==
  [dir |-> NoDir, f |-> NilFile, buf |-> <<>>, nextId |-> 0,
   rotations |-> 0, rotateErr |-> "nil", closedFile |-> NoFile,
   fds |-> {}, overwrote |-> FALSE,
   pc |-> "idle", p |-> <<>>, size |-> 0, loc |-> 0, n0 |-> 0, n |-> 0,
   err |-> "nil", i |-> 0, rpc |-> "ret", fk |-> 0, short |-> FALSE, ops |-> 0,
   wops |-> {}]
IdleThread == [s |-> IdleCall, op |-> "none", start |-> IdleCall]

\* the fault plans of a call: none, or the k-th of the operations it does
\* when nothing fails, as a plain failure or (for a write of two bytes or
\* more) as a short write
Plans(op, p) ==
  {<<0, FALSE>>} \cup
  (IF faults < MaxFaults
   THEN LET r == Run(Begin(op, p, 0, FALSE))
        IN ((1 .. r.ops) \X {FALSE}) \cup (r.wops \X {TRUE})
   ELSE {})

\* the whole call, start to return, under the lock, with one of the fault
\* plans given
CallWith(op, p, plans) ==
  /\ written + Len(p) <= MaxBytes
  /\ \E plan \in plans :
       LET r == Run(Begin(op, p, plan[1], plan[2]))
       IN /\ dir' = r.dir
          /\ f' = r.f
          /\ buf' = r.buf
          /\ nextId' = r.nextId
          /\ rotations' = r.rotations
          /\ rotateErr' = r.rotateErr
          /\ closedFile' = r.closedFile
          /\ fds' = r.fds
          /\ overwrote' = r.overwrote
          /\ faults' = IF plan[1] > 0 THEN faults + 1 ELSE faults
          /\ last' = [op |-> op, by |-> 0, len |-> Len(p), n |-> r.n, err |-> r.err]
  /\ closes' = IF op = "Close" THEN Min({closes + 1, 2}) ELSE closes
  /\ written' = written + Len(p)
  /\ UNCHANGED <<arg, options, mu, th>>

Call(op, p) == CallWith(op, p, Plans(op, p))

Write(p) == Call("Write", p)
Close == Call("Close", <<>>)

\* NewWriter(arg) returned w: the base file is there (made by O_CREATE, or
\* found with options.Size bytes already in it) and open for append
Init ==
  /\ arg \in [Rotate : 0 .. MaxRotate, Size : 0 .. MaxSize, LineSeparator : Separators]
  /\ options = NewWriterOptions(arg)
  /\ \E pre \in {0, options.Size} :
       dir = [name \in Names |-> IF name = 0 THEN [id |-> 0, pre |-> pre, data |-> <<>>]
                                 ELSE NoFile]
  /\ f = [ino |-> 0, st |-> "open"]
  /\ buf = <<>>
  /\ nextId = 1
  /\ rotations = 0
  /\ rotateErr = "nil"
  /\ closedFile = NoFile
  /\ fds = {0}
  /\ overwrote = FALSE
  /\ closes = 0
  /\ faults = 0
  /\ written = 0
  /\ last = [op |-> "NewWriter", by |-> 0, len |-> 0, n |-> 0, err |-> "nil"]
  /\ mu = 0
  /\ th = [t \in Threads |-> IdleThread]

Next ==
  \/ \E p \in Inputs : Write(p)
  \/ Close

Spec == Init /\ [][Next]_vars

\* ------------------------------------- a directory that holds generations
\* a generation left in the directory by an earlier process: <path>.name, with
\* an identity no file of this writer has
OldGeneration(name) == [id |-> -1 - name, pre |-> 1, data |-> <<>>]

\* NewWriter(arg) returned w, in a directory where any of <path>.1 ..
\* <path>.Rotate may be there already (the writers built with Size given)
InitGaps ==
  /\ arg \in [Rotate : 0 .. MaxRotate, Size : 1 .. MaxSize, LineSeparator : Separators]
  /\ options = NewWriterOptions(arg)
  /\ \E pre \in {0, options.Size} : \E held \in SUBSET (1 .. options.Rotate) :
       dir = [name \in Names |->
                IF name = 0 THEN [id |-> 0, pre |-> pre, data |-> <<>>]
                ELSE IF name \in held THEN OldGeneration(name)
                ELSE NoFile]
  /\ f = [ino |-> 0, st |-> "open"]
  /\ buf = <<>>
  /\ nextId = 1
  /\ rotations = 0
  /\ rotateErr = "nil"
  /\ closedFile = NoFile
  /\ fds = {0}
  /\ overwrote = FALSE
  /\ closes = 0
  /\ faults = 0
  /\ written = 0
  /\ last = [op |-> "NewWriter", by |-> 0, len |-> 0, n |-> 0, err |-> "nil"]
  /\ mu = 0
  /\ th = [t \in Threads |-> IdleThread]

\* the calls in which no operation of the file system fails
NoFault == {<<0, FALSE>>}
WriteOk(p) == CallWith("Write", p, NoFault)
CloseOk == CallWith("Close", <<>>, NoFault)

NextGaps ==
  \/ \E p \in Inputs : WriteOk(p)
  \/ CloseOk

SpecGaps == InitGaps /\ [][NextGaps]_vars

\* ------------------------------------------------- goroutines and the mutex
\* the call of goroutine t with the writer and the directory as they are now
Load(t) ==
  [th[t].s EXCEPT !.dir = dir, !.f = f, !.buf = buf, !.nextId = nextId,
                  !.rotations = rotations, !.rotateErr = rotateErr,
                  !.closedFile = closedFile, !.fds = fds, !.overwrote = overwrote]

\* mutant: Lock never waits
CanLockAlways == TRUE

\* w.mu.Lock() goes through when the mutex is unlocked, and waits otherwise
CanLock == mu = 0

\* goroutine t calls op(p) and gets past w.mu.Lock()
Lock(t, op, p) ==
  /\ th[t].s.pc = "idle"
  /\ written + Len(p) <= MaxBytes
  /\ CanLock
  /\ mu' = t
  /\ th' = [th EXCEPT ![t] = [s |-> Unload(Begin(op, p, 0, FALSE)), op |-> op,
                              start |-> Begin(op, p, 0, FALSE)]]
  /\ written' = written + Len(p)
  /\ UNCHANGED <<arg, options, f, buf, dir, nextId, rotations, rotateErr,
                 closedFile, fds, overwrote, closes, faults, last>>

\* goroutine t runs the next statement of its call (in this specification
\* the operations of the file system do not fail)
StepThread(t) ==
  /\ th[t].s.pc \notin {"idle", "ret"}
  /\ LET s1 == Step(Load(t))
     IN /\ dir' = s1.dir
        /\ f' = s1.f
        /\ buf' = s1.buf
        /\ nextId' = s1.nextId
        /\ rotations' = s1.rotations
        /\ rotateErr' = s1.rotateErr
        /\ closedFile' = s1.closedFile
        /\ fds' = s1.fds
        /\ overwrote' = s1.overwrote
        /\ th' = [th EXCEPT ![t].s = Unload([s1 EXCEPT !.wops = {}])]
  /\ UNCHANGED <<arg, options, closes, faults, written, last, mu>>

\* the call of goroutine t returns: the deferred w.mu.Unlock() runs
Unlock(t) ==
  /\ th[t].s.pc = "ret"
  /\ mu' = 0
  /\ last' = [op |-> th[t].op, by |-> t, len |-> Len(th[t].s.p),
              n |-> th[t].s.n, err |-> th[t].s.err]
  /\ closes' = IF th[t].op = "Close" THEN Min({closes + 1, 2}) ELSE closes
  /\ th' = [th EXCEPT ![t] = IdleThread]
  /\ UNCHANGED <<arg, options, f, buf, dir, nextId, rotations, rotateErr,
                 closedFile, fds, overwrote, faults, written>>

NextConc ==
  \E t \in Threads :
    \/ \E p \in Inputs : Lock(t, "Write", p)
    \/ Lock(t, "Close", <<>>)
    \/ StepThread(t)
    \/ Unlock(t)

\* the writers built with Rotate and Size given
InitConc == Init /\ arg.Rotate >= 1 /\ arg.Size >= 1

SpecConc == InitConc /\ [][NextConc]_vars

\* ------------------------------------------------------------------ claims
Generations(d) == Present(d) \ {0}
EndsWith(b, sep) == Len(b) >= Len(sep) /\ SliceFrom(b, Len(b) - Len(sep)) = sep
AfterClose == {"failed to remove", "failed to rename", "failed to create a new file"}

\* C1: with Rotate >= 1 and no separator, from a directory that held only the
\* base file, as long as no rotate has failed the files present after k
\* rotations are the base file and the generations 1 .. min(k, Rotate); no
\* generation above Rotate exists.
RetentionBound ==
  (arg.Rotate >= 1 /\ Len(options.LineSeparator) = 0 /\ rotateErr = "nil")
    => Present(dir) = {0} \cup (1 .. Min({rotations, options.Rotate}))

RetentionBoundWitness ==
  /\ arg.Rotate >= 1 /\ Len(options.LineSeparator) = 0 /\ rotateErr = "nil"
  /\ rotations > options.Rotate
  /\ Cardinality(Present(dir)) = options.Rotate + 1

\* C2: after every successful rotation <path>.1 is the file rotate has just
\* closed, with the content it had then, and generation j is the file that was
\* closed j rotations ago (files are made in the order 0, 1, 2, ..., so after
\* k rotations <path>.j is file k - j): newer files have smaller indices.
GenerationOrdering ==
  (rotations >= 1 /\ rotateErr = "nil")
    => /\ dir[1] = closedFile
       /\ \A j \in 1 .. Min({rotations, options.Rotate}) :
            Exists(dir, j) /\ dir[j].id = rotations - j
       /\ \A i, j \in Generations(dir) : i < j => dir[i].id > dir[j].id

GenerationOrderingWitness ==
  /\ rotations = 2 /\ rotateErr = "nil" /\ options.Rotate >= 2
  /\ dir[1].id = 1 /\ Len(dir[1].data) > 0
  /\ dir[2].id = 0

\* C3: with a separator configured, every generation the writer has produced
\* ends with the separator, whatever the lengths and alignment of the inputs
\* and whichever operation failed.
RotatedEndsWithSeparator ==
  Len(options.LineSeparator) > 0
    => \A i \in Generations(dir) : EndsWith(dir[i].data, options.LineSeparator)

\* a two-byte separator whose halves came in two Writes
RotatedEndsWithSeparatorWitness ==
  /\ options.LineSeparator = LineSeparatorWindows
  /\ rotations >= 1 /\ Exists(dir, 1)
  /\ last.op = "Write" /\ last.err = "nil" /\ last.len = 1 /\ last.n = 2

\* C4: a Write that returns no error returns the length of its argument.
WriteCountIsInputLength ==
  (last.op = "Write" /\ last.err = "nil") => last.n = last.len

\* C5: once Close has returned, a Write returns 0 and the closed-writer error
\* and changes no file, no name and not the buffer.
WriteAfterCloseFails ==
  [][(closes >= 1 /\ last'.op = "Write")
      => /\ last'.n = 0 /\ last'.err = "file is closed"
         /\ UNCHANGED <<dir, f, buf, nextId>>]_vars

WriteAfterCloseWitness ==
  /\ closes >= 1 /\ last.op = "Write" /\ last.err = "file is closed"
  /\ Len(buf) > 0 /\ last.len > 0

\* C6: once Close has returned, a further Close returns nil and changes neither
\* the writer nor the directory.
CloseIdempotent ==
  [][(closes >= 1 /\ last'.op = "Close")
      => /\ last'.err = "nil"
         /\ UNCHANGED <<dir, f, buf, nextId, options>>]_vars

CloseIdempotentWitness ==
  closes = 2 /\ last.op = "Close" /\ last.err = "nil" /\ f = NilFile

\* C7: the calls of the goroutines are serialized by w.mu.  At most one
\* goroutine is between Lock and Unlock; while one is inside rotate no other is
\* inside a call; when a call returns, the writer, the directory and the
\* results are those of the whole call run alone from the state it locked in;
\* and between calls the base file is there and w.f is nil or open on it.
InCall(t) == th[t].s.pc # "idle"
RotateLabels == {"R_close", "R_remove", "R_shift", "R_base", "R_open"}
Alone(t) == Run(th[t].start)

CallsAreSerialized ==
  /\ \A t, u \in Threads : (InCall(t) /\ InCall(u)) => t = u
  /\ \A t \in Threads : InCall(t) => mu = t
  /\ \A t, u \in Threads : (th[t].s.pc \in RotateLabels /\ u # t) => ~InCall(u)
  /\ \A t \in Threads :
       th[t].s.pc = "ret"
         => LET e == Alone(t)
            IN /\ dir = e.dir /\ f = e.f /\ buf = e.buf /\ nextId = e.nextId
               /\ th[t].s.n = e.n /\ th[t].s.err = e.err
  /\ (\A t \in Threads : ~InCall(t))
       => /\ Exists(dir, 0)
          /\ f.st \in {"nil", "open"}
          /\ f.st = "open" => f.ino = dir[0].id

\* a Write of one goroutine has rotated and is about to return, after a Write
\* of another goroutine returned
CallsAreSerializedWitness ==
  \E t \in Threads :
    /\ th[t].s.pc = "ret" /\ th[t].op = "Write" /\ th[t].s.err = "nil"
    /\ rotations > th[t].start.rotations
    /\ last.op = "Write" /\ last.by \notin {0, t} /\ last.err = "nil" /\ last.len > 0

RotateZeroKeepsNoHistory ==
  arg.Rotate = 0 => Present(dir) \subseteq {0}

\* C10: a writer built with Size 0 never rotates.
SizeZeroNeverRotates ==
  arg.Size = 0 => (rotations = 0 /\ closedFile = NoFile)

InitialFile == Inode(dir, 0)

BufferHoldsNoSeparator ==
  (last.op = "Write" /\ Len(options.LineSeparator) > 0)
    => Index(buf, options.LineSeparator) = -1

\* the call Write(p) made in the current state, no operation failing
WriteNow(p) == Run(Begin("Write", p, 0, FALSE))

\* w.f is open on a base file that has reached the threshold
AtThreshold ==
  /\ f.st = "open" /\ Exists(dir, 0) /\ dir[0].id = f.ino
  /\ FileSize(dir[0]) >= options.Size

\* C14: with a separator configured, in every reachable state where the base
\* file has reached the threshold, a Write of any p such that the buffer
\* followed by p holds no separator returns (len(p), nil), leaves the buffer
\* followed by p in the buffer, and changes no file and no name: there is no
\* rotation and the handle is the same.
BufferedWithoutSeparator ==
  \A p \in Inputs :
    (/\ Len(options.LineSeparator) > 0
     /\ AtThreshold
     /\ Index(buf \o p, options.LineSeparator) = -1)
      => LET r == WriteNow(p)
         IN /\ r.n = Len(p) /\ r.err = "nil"
            /\ r.buf = buf \o p
            /\ r.dir = dir /\ r.f = f /\ r.fds = fds
            /\ r.rotations = rotations /\ r.nextId = nextId

\* such a Write has returned with bytes already in the buffer: the buffer
\* holds more than the argument, nothing of it is in the base file
BufferedWithoutSeparatorWitness ==
  /\ Len(options.LineSeparator) > 0 /\ AtThreshold
  /\ last.op = "Write" /\ last.err = "nil" /\ last.len > 0 /\ last.n = last.len
  /\ Len(buf) > last.len
  /\ Index(buf, options.LineSeparator) = -1
  /\ dir[0].data = <<>> /\ faults = 0

\* C15: with a separator configured, in every reachable state where the base
\* file has reached the threshold, a Write of any p such that the buffer
\* followed by p holds the separator splits that at the first occurrence: the
\* bytes up to and including the separator are appended to the base file
\* before rotate closes it (closedFile is the file as it was closed), that
\* file becomes <path>.1, the rest is all there is in the new base file the
\* rotation made, and the buffer is empty.
SplitAtFirstSeparator ==
  \A p \in Inputs :
    LET sep == options.LineSeparator
        b == buf \o p
        loc == Index(b, sep)
        r == WriteNow(p)
    IN (Len(sep) > 0 /\ AtThreshold /\ loc # -1)
         => /\ r.err = "nil"
            /\ r.rotations = rotations + 1
            /\ r.closedFile = [dir[0] EXCEPT !.data = @ \o SubSeq(b, 1, loc + Len(sep))]
            /\ r.dir[1] = r.closedFile
            /\ r.dir[0] = [id |-> nextId, pre |-> 0,
                           data |-> SubSeq(b, loc + Len(sep) + 1, Len(b))]
            /\ r.f = [ino |-> nextId, st |-> "open"]
            /\ r.buf = <<>>

\* a Write has split its argument: a line went to what is now <path>.1 and
\* the bytes after it are in the new base file
SplitAtFirstSeparatorWitness ==
  /\ Len(options.LineSeparator) > 0
  /\ last.op = "Write" /\ last.err = "nil" /\ last.len > 0
  /\ rotations >= 1 /\ dir[1] = closedFile
  /\ EndsWith(dir[1].data, options.LineSeparator)
  /\ Len(dir[0].data) > 0 /\ dir[0].id = rotations
  /\ buf = <<>> /\ faults = 0

\* C16: in a directory where any of <path>.1 .. <path>.Rotate were there
\* before, with no operation failing, no rotate fails, and every rotation
\* moves each generation i < Rotate that is there to i + 1 as it is, leaves
\* i + 1 empty where i was not there, discards the file that was
\* <path>.Rotate, touches no other name, puts the old base file at <path>.1
\* and leaves w.f open on a new, empty base file.
RotateToleratesGaps ==
  [][/\ rotateErr' = "nil"
     /\ rotations' # rotations
          => /\ rotations' = rotations + 1
             /\ \A i \in 1 .. (options.Rotate - 1) : dir'[i + 1] = dir[i]
             /\ Exists(dir, options.Rotate)
                  => \A name \in Names : dir'[name].id # dir[options.Rotate].id
             /\ \A name \in Names : name > options.Rotate => dir'[name] = dir[name]
             /\ dir'[1].id = dir[0].id /\ dir'[1].pre = dir[0].pre
             /\ dir'[0].id = nextId /\ dir'[0].pre = 0
             /\ f' = [ino |-> nextId, st |-> "open"]]_vars

\* the first rotation found <path>.2 and <path>.4 but neither <path>.1 nor
\* <path>.3: they are <path>.3 and <path>.5 now, and <path>.2 and <path>.4
\* are not there
RotateToleratesGapsWitness ==
  /\ rotations = 1 /\ rotateErr = "nil"
  /\ dir[3] = OldGeneration(2) /\ dir[5] = OldGeneration(4)
  /\ ~Exists(dir, 2) /\ ~Exists(dir, 4)
  /\ dir[1].id = 0 /\ dir[0].id = 1 /\ f = [ino |-> 1, st |-> "open"]

\* C17: no os.Rename of rotate finds a file at its destination, and a call
\* takes no file out of the directory except the one that was <path>.Rotate:
\* every other file that was there is there after the call, as it was or
\* with bytes appended, under the same name or another.
NoRenameOverwrites ==
  [][/\ ~overwrote'
     /\ \A name \in Names :
          (Exists(dir, name) /\ name # options.Rotate)
            => \E to \in Names :
                 /\ dir'[to].id = dir[name].id
                 /\ dir'[to].pre = dir[name].pre
                 /\ SubSeq(dir'[to].data, 1, Len(dir[name].data)) = dir[name].data]_vars

\* two rotations in a directory that held <path>.1 and <path>.3: the eviction
\* has run, and both old generations were shifted twice
NoRenameOverwritesWitness ==
  /\ rotations = 2 /\ rotateErr = "nil" /\ options.Rotate = DefaultRotate
  /\ dir[3] = OldGeneration(1) /\ dir[5] = OldGeneration(3)
  /\ dir[2].id = 0 /\ dir[1].id = 1

\* the bytes appended to <path>.name, <path>.(name-1), ..., <path>.1 and the
\* base file, in this order
RECURSIVE Appended(_, _)
Appended(d, name) ==
  IF name = 0 THEN d[0].data ELSE d[name].data \o Appended(d, name - 1)

\* the generations from the oldest down, the base file, then the buffer
Content(d, b) == Appended(d, MaxName) \o b

\* every file made so far (they are made with identities 0, 1, 2, ...) is
\* still in the directory
NothingEvicted(d, next) == \A id \in 0 .. (next - 1) : \E name \in Names : d[name].id = id

\* C18: in a run where no operation has failed and no file has been evicted,
\* the bytes that were in the base file when the writer was built are at the
\* start of the oldest file and of no other, nothing follows them before a
\* byte is handed to Write, and every further call that
\* evicts nothing keeps the order of all bytes: a Write of p that returns no
\* error adds exactly p at the end of the generations from the oldest down,
\* the base file and the buffer, taken as one sequence; a Write that returns
\* an error (the writer is closed) and a Close change nothing of it.
ContentConserved ==
  (faults = 0 /\ NothingEvicted(dir, nextId))
    => /\ \A i, j \in Names : (i < j /\ Exists(dir, j)) => dir[i].pre = 0
       /\ written = 0 => Content(dir, buf) = <<>>
       /\ \A p \in Inputs :
            LET r == WriteNow(p)
            IN NothingEvicted(r.dir, r.nextId)
                 => Content(r.dir, r.buf)
                      = Content(dir, buf) \o (IF r.err = "nil" THEN p ELSE <<>>)
       /\ LET c == Run(Begin("Close", <<>>, 0, FALSE))
          IN Content(c.dir, c.buf) = Content(dir, buf)

\* three bytes went in with no failure: the first is the line in <path>.1,
\* the second is in the base file, the third is in the buffer
ContentConservedWitness ==
  /\ faults = 0 /\ NothingEvicted(dir, nextId)
  /\ rotations = 1 /\ written = 3 /\ last.op = "Write" /\ last.err = "nil"
  /\ Len(dir[1].data) = 1 /\ Len(dir[0].data) = 1 /\ Len(buf) = 1

\* C19: in a run where no operation has failed, once Close has returned nil
\* the buffer is empty: no byte a Write has accepted is in memory only.
ClosedWriterHoldsNoBytes ==
  (faults = 0 /\ last.op = "Close" /\ last.err = "nil") => buf = <<>>

\* C20: with a separator configured, a Write that returns an error leaves the
\* buffer as it was before the call.
FailedWriteKeepsBuffer ==
  [][(Len(options.LineSeparator) > 0 /\ last'.op = "Write" /\ last'.err # "nil")
       => buf' = buf]_vars

====
